---------------------------- MODULE Spec2Model ----------------------------
(***************************************************************************)
(* A model of quick-search-lib.                                            *)
(*                                                                         *)
(* src/src/logging.rs: the severity filter, the Logger / ScopedLogger      *)
(* emitters over one unbounded channel, the serde_json wire form of a      *)
(* LogMessage and the U128Wrapper that carries its timestamp.              *)
(* src/src/lib.rs: the Config store of EntryType values and its ordered    *)
(* serialization, and load_library.                                        *)
(*                                                                         *)
(* A string is a sequence of one-character strings.                        *)
(***************************************************************************)
EXTENDS Integers, Sequences, FiniteSets, TLC

VARIABLES
    logger,          \* the Logger's own fields: log_level (a cell), source, stdout
    logger_alive,    \* TRUE until the Logger (and with it the receiver) is dropped
    cells,           \* the RArc<RMutex<LogLevelOrCustom>> cells: cell -> filter
    scoped,          \* the ScopedLoggers handed out so far
    queue,           \* the messages in the channel, oldest first
    stdout_written,  \* lines the most recent call wrote to standard output
    stderr_written,  \* lines the most recent call wrote to standard error
    ret,             \* the Vec<LogMessage> the most recent Logger::get returned
    sent,            \* history: every message the channel accepted, in order
    received,        \* history: every message some Logger::get returned, in order
    before,          \* history: the queue as the most recent call found it
    requested,       \* history: the filter most recently given to new or set_log_level
    last,            \* history: the most recent call and how it ended
    probe,           \* the most recent evaluation of a pure function
    configs,         \* the Config stores: name -> entries (key -> EntryType)
    config_call,     \* the most recent call on a Config and what it returned
    fs,              \* the file system: path -> what lies there
    load_result,     \* path -> what the most recent load_library(path) returned
    factory_called,  \* history: path -> the library's get_searchable was called
    plugin,          \* path -> the plugin the host holds for it
    threads,         \* producer thread -> where it is in its call of log
    consumer,        \* where the host's thread is in its call on the Logger
    guard,           \* the thread that holds the filter's RMutex, if any
    emitted          \* history: producer thread -> the messages it sent, in order

logging_vars == <<logger, logger_alive, cells, scoped, queue, stdout_written,
                  stderr_written, ret, sent, received, before, requested, last>>

config_vars == <<configs, config_call>>

loader_vars == <<fs, load_result, factory_called, plugin>>

thread_vars == <<threads, consumer, guard, emitted>>

vars == <<logger, logger_alive, cells, scoped, queue, stdout_written,
          stderr_written, ret, sent, received, before, requested, last, probe,
          config_vars, loader_vars, thread_vars>>

\* No Config is in use.
ConfigIdle ==
    /\ configs = <<>>
    /\ config_call = <<>>

\* No library is loaded.
LoaderIdle ==
    /\ fs = <<>>
    /\ load_result = <<>>
    /\ factory_called = <<>>
    /\ plugin = <<>>

\* No thread runs beside the caller's.
ThreadsIdle ==
    /\ threads = <<>>
    /\ consumer = <<>>
    /\ guard = [some |-> FALSE]
    /\ emitted = <<>>

---------------------------------------------------------------------------
(* Bounds of the model.                                                    *)

\* Messages the channel accepts in one behaviour (the channel is unbounded).
MaxSent == 2

\* Longest list of levels handed to from_levels.
MaxLevels == 3

\* Bits of one half of a U128Wrapper (64 in the code, scaled to TLC's integers).
HalfBits == 4

---------------------------------------------------------------------------
(* enum LogLevel, #[repr(u8)].                                             *)

Trace == 1
Debug == 2
Info == 4
Warn == 8
Error == 16

LogLevel == {Trace, Debug, Info, Warn, Error}

\* The severity order Trace < Debug < Info < Warn < Error (derive(Ord) on the
\* enum: the order of declaration).
LevelOrder == <<Trace, Debug, Info, Warn, Error>>

rank(level) == CHOOSE i \in 1..Len(LevelOrder) : LevelOrder[i] = level

\* The variant names serde writes for a unit enum.
LevelName(level) ==
    CASE level = Trace -> <<"T", "r", "a", "c", "e">>
      [] level = Debug -> <<"D", "e", "b", "u", "g">>
      [] level = Info  -> <<"I", "n", "f", "o">>
      [] level = Warn  -> <<"W", "a", "r", "n">>
      [] level = Error -> <<"E", "r", "r", "o", "r">>

---------------------------------------------------------------------------
(* Bit operations on unsigned integers.                                    *)

RECURSIVE BitAnd(_, _)
BitAnd(a, b) ==
    IF a = 0 \/ b = 0 THEN 0
    ELSE 2 * BitAnd(a \div 2, b \div 2) + (IF a % 2 = 1 /\ b % 2 = 1 THEN 1 ELSE 0)

RECURSIVE BitOr(_, _)
BitOr(a, b) ==
    IF a = 0 THEN b
    ELSE IF b = 0 THEN a
    ELSE 2 * BitOr(a \div 2, b \div 2) + (IF a % 2 = 1 \/ b % 2 = 1 THEN 1 ELSE 0)

RECURSIVE Pow2(_)
Pow2(n) == IF n = 0 THEN 1 ELSE 2 * Pow2(n - 1)

U8 == 0..255

---------------------------------------------------------------------------
(* enum LogLevelOrCustom and LogLevelBitmask.                              *)

LogLevelFilter(l) == [tag |-> "LogLevel", l |-> l, mask |-> 0]
Custom(mask) == [tag |-> "Custom", l |-> Trace, mask |-> mask]

from_mask(mask) == mask

\* is_enabled with a fault seeded: the mask compared as a threshold.
is_enabled_MaskAsThreshold(f, level) ==
    IF f.tag = "LogLevel" THEN f.l >= level
    ELSE f.mask >= level

is_enabled(f, level) ==
    IF f.tag = "LogLevel" THEN f.l >= level
    ELSE BitAnd(f.mask, level) # 0

from_min_level(level) == LogLevelFilter(level)

RECURSIVE OrLevels(_, _)
OrLevels(levels, mask) ==
    IF levels = <<>> THEN mask
    ELSE OrLevels(Tail(levels), BitOr(mask, Head(levels)))

from_levels(levels) == Custom(from_mask(OrLevels(levels, 0)))

---------------------------------------------------------------------------
(* struct U128Wrapper: a u128 as two u64 halves.                           *)

Half == Pow2(HalfBits)
U128Max == Half * Half - 1

\* U128Wrapper::new with a fault seeded: the high half taken without the shift.
U128New_NoShift(value) == [first |-> value % Half, second |-> value % Half]

U128New(value) == [first |-> (value \div Half) % Half, second |-> value % Half]

U128Get(w) == BitOr(w.first * Half, w.second)

---------------------------------------------------------------------------
(* struct LogMessage and its serde_json wire form.                         *)

LogMessage(message, level, source, time) ==
    [message |-> message, level |-> level, source |-> source, time |-> time]

Digit == <<"0", "1", "2", "3", "4", "5", "6", "7", "8", "9">>

IsDigit(c) == \E d \in 1..10 : Digit[d] = c

DigitValue(c) == (CHOOSE d \in 1..10 : Digit[d] = c) - 1

\* The decimal digits serialize_u128 writes.
RECURSIVE Itoa(_)
Itoa(n) ==
    IF n < 10 THEN <<Digit[n + 1]>>
    ELSE Itoa(n \div 10) \o <<Digit[(n % 10) + 1]>>

\* The characters of a JSON string literal's body: quote and backslash escaped.
RECURSIVE Escape(_)
Escape(s) ==
    IF s = <<>> THEN <<>>
    ELSE (IF Head(s) \in {"\"", "\\"} THEN <<"\\", Head(s)>> ELSE <<Head(s)>>)
         \o Escape(Tail(s))

JsonString(s) == <<"\"">> \o Escape(s) \o <<"\"">>

KeyMessage == <<"m", "e", "s", "s", "a", "g", "e">>
KeyLevel == <<"l", "e", "v", "e", "l">>
KeySource == <<"s", "o", "u", "r", "c", "e">>
KeyTime == <<"t", "i", "m", "e">>

\* u128_wrapper::serialize: the timestamp is written as the u128 it holds.
SerializeTime(time) == Itoa(U128Get(time))

\* serde_json::to_string of a LogMessage: the fields in declaration order.
to_string(m) ==
    <<"{">> \o JsonString(KeyMessage) \o <<":">> \o JsonString(m.message)
    \o <<",">> \o JsonString(KeyLevel) \o <<":">> \o JsonString(LevelName(m.level))
    \o <<",">> \o JsonString(KeySource) \o <<":">> \o JsonString(m.source)
    \o <<",">> \o JsonString(KeyTime) \o <<":">> \o SerializeTime(m.time)
    \o <<"}">>

Fail == [ok |-> FALSE]

\* A string literal's body from position i (after the opening quote) on.
RECURSIVE ScanString(_, _, _)
ScanString(t, i, acc) ==
    IF i > Len(t) THEN Fail
    ELSE IF t[i] = "\"" THEN [ok |-> TRUE, kind |-> "str", str |-> acc, num |-> 0, next |-> i + 1]
    ELSE IF t[i] = "\\"
         THEN IF i + 1 <= Len(t) /\ t[i + 1] \in {"\"", "\\"}
              THEN ScanString(t, i + 2, Append(acc, t[i + 1]))
              ELSE Fail
    ELSE ScanString(t, i + 1, Append(acc, t[i]))

ParseString(t, i) ==
    IF i <= Len(t) /\ t[i] = "\"" THEN ScanString(t, i + 1, <<>>) ELSE Fail

\* An unsigned integer from position i on: no sign, no leading zero, at most
\* u128::MAX.
RECURSIVE ScanDigits(_, _, _)
ScanDigits(t, i, acc) ==
    IF i <= Len(t) /\ IsDigit(t[i])
    THEN IF acc * 10 + DigitValue(t[i]) > U128Max THEN Fail
         ELSE ScanDigits(t, i + 1, acc * 10 + DigitValue(t[i]))
    ELSE [ok |-> TRUE, kind |-> "num", str |-> <<>>, num |-> acc, next |-> i]

ParseNumber(t, i) ==
    IF i > Len(t) \/ ~IsDigit(t[i]) THEN Fail
    ELSE IF t[i] = "0"
         THEN IF i + 1 <= Len(t) /\ IsDigit(t[i + 1]) THEN Fail
              ELSE [ok |-> TRUE, kind |-> "num", str |-> <<>>, num |-> 0, next |-> i + 1]
    ELSE ScanDigits(t, i, 0)

ParseValue(t, i) ==
    IF i <= Len(t) /\ t[i] = "\"" THEN ParseString(t, i) ELSE ParseNumber(t, i)

\* u128_wrapper::deserialize: the u128 read is wrapped again.
DeserializeTime(n) == U128New(n)

NoFields == [message |-> <<>>, level |-> <<>>, source |-> <<>>, time |-> <<>>]

\* One member "key":value put into the fields read so far. A field read twice,
\* a value of the wrong type and an unknown level name are errors; a key that
\* is no field of LogMessage is skipped.
PutField(acc, key, v) ==
    IF key = KeyMessage
    THEN IF acc.message = <<>> /\ v.kind = "str"
         THEN [ok |-> TRUE, acc |-> [acc EXCEPT !.message = <<v.str>>]] ELSE Fail
    ELSE IF key = KeySource
    THEN IF acc.source = <<>> /\ v.kind = "str"
         THEN [ok |-> TRUE, acc |-> [acc EXCEPT !.source = <<v.str>>]] ELSE Fail
    ELSE IF key = KeyLevel
    THEN IF acc.level = <<>> /\ v.kind = "str" /\ \E l \in LogLevel : LevelName(l) = v.str
         THEN [ok |-> TRUE,
               acc |-> [acc EXCEPT !.level = <<CHOOSE l \in LogLevel : LevelName(l) = v.str>>]]
         ELSE Fail
    ELSE IF key = KeyTime
    THEN IF acc.time = <<>> /\ v.kind = "num"
         THEN [ok |-> TRUE, acc |-> [acc EXCEPT !.time = <<DeserializeTime(v.num)>>]] ELSE Fail
    ELSE [ok |-> TRUE, acc |-> acc]

\* The members of an object from position i on, up to the closing brace, which
\* must end the text.
RECURSIVE ParseMembers(_, _, _)
ParseMembers(t, i, acc) ==
    LET k == ParseString(t, i) IN
    IF ~k.ok THEN Fail
    ELSE IF k.next > Len(t) \/ t[k.next] # ":" THEN Fail
    ELSE LET v == ParseValue(t, k.next + 1) IN
         IF ~v.ok THEN Fail
         ELSE LET p == PutField(acc, k.str, v) IN
              IF ~p.ok THEN Fail
              ELSE IF v.next > Len(t) THEN Fail
              ELSE IF t[v.next] = "," THEN ParseMembers(t, v.next + 1, p.acc)
              ELSE IF t[v.next] = "}" /\ v.next = Len(t) THEN [ok |-> TRUE, acc |-> p.acc]
              ELSE Fail

\* serde_json::from_str::<LogMessage> of a text in compact form (no white
\* space, flat object of strings and unsigned integers).
from_str(t) ==
    IF Len(t) < 2 \/ t[1] # "{" THEN Fail
    ELSE LET r == IF t[2] = "}"
                  THEN (IF Len(t) = 2 THEN [ok |-> TRUE, acc |-> NoFields] ELSE Fail)
                  ELSE ParseMembers(t, 2, NoFields)
         IN IF ~r.ok THEN Fail
            ELSE IF \/ Len(r.acc.message) = 0 \/ Len(r.acc.level) = 0
                    \/ Len(r.acc.source) = 0 \/ Len(r.acc.time) = 0 THEN Fail
            ELSE [ok |-> TRUE,
                  value |-> LogMessage(r.acc.message[1], r.acc.level[1],
                                       r.acc.source[1], r.acc.time[1])]

---------------------------------------------------------------------------
(* The inputs the operations are called with.                              *)

Raw == <<"r", "a", "w">>

\* Source labels handed to new_scoped.
Labels == {<<"p">>}

\* Message texts handed to log.
Messages == {<<"a">>}

\* Severities handed to log: the lowest, the highest and one between.
Severities == {Trace, Warn, Error}

\* Readings of the system clock, in milliseconds since the epoch.
Now == {Half + 1}

\* Filters handed to Logger::new and set_log_level.
Filters ==
    {from_min_level(Warn), from_min_level(Error),
     from_levels(<<>>), from_levels(<<Error, Trace>>)}

\* An event serialized elsewhere: another source, an earlier time with both
\* halves of the timestamp in use, a message that needs escaping.
ForeignEvents ==
    {LogMessage(<<"\"", "\\">>, Debug, <<"x">>, U128New(Half * (Half - 1) + 5))}

\* Texts that are no serialized LogMessage: no JSON at all, and an object
\* whose level is no variant of LogLevel.
MalformedTexts ==
    {<<"x">>,
     <<"{">> \o JsonString(KeyMessage) \o <<":">> \o JsonString(<<"a">>)
        \o <<",">> \o JsonString(KeyLevel) \o <<":">> \o JsonString(<<"F">>)
        \o <<",">> \o JsonString(KeySource) \o <<":">> \o JsonString(<<"x">>)
        \o <<",">> \o JsonString(KeyTime) \o <<":">> \o <<"1">> \o <<"}">>}

\* Texts handed to import_deserialize.
Texts == {<<>>} \cup MalformedTexts \cup {to_string(e) : e \in ForeignEvents}

\* from_str of each of these texts, computed once.
Parsed == [t \in Texts |-> from_str(t)]

\* serde_json::from_str::<LogMessage>, as import_deserialize calls it.
from_str_LogMessage(t) == IF t \in Texts THEN Parsed[t] ELSE from_str(t)

---------------------------------------------------------------------------
(* The channel and the emitters.                                           *)

ErrorSending ==
    <<"E", "r", "r", "o", "r", " ", "s", "e", "n", "d", "i", "n", "g", " ",
      "l", "o", "g", " ", "m", "e", "s", "s", "a", "g", "e">>

FailedToDeserialize ==
    <<"F", "a", "i", "l", "e", "d", " ", "t", "o", " ",
      "d", "e", "s", "e", "r", "i", "a", "l", "i", "z", "e", " ",
      "l", "o", "g", " ", "m", "e", "s", "s", "a", "g", "e", ":", " ">>

\* RSender::send on the unbounded channel: the message joins the tail, or
\* comes back as an error once the receiver is gone.
ChannelSend(m) ==
    IF logger_alive THEN [ok |-> TRUE, queue |-> Append(queue, m)]
    ELSE [ok |-> FALSE, queue |-> queue]

\* RArc::clone with a fault seeded: the cell's value copied into a new cell.
RArcClone_Copy(cell) == [cells |-> Append(cells, cells[cell]), cell |-> Len(cells) + 1]

\* RArc::clone: another reference to the same cell.
RArcClone(cell) == [cells |-> cells, cell |-> cell]

Logger_log_level(e) == cells[e.log_level]

Logger_source(e) == e.source

Logger_send(e, m) ==
    [stdout |-> IF e.stdout THEN <<to_string(m)>> ELSE <<>>, res |-> ChannelSend(m)]

ScopedLogger_log_level(e) == cells[e.log_level]

\* ScopedLogger::source with a fault seeded: the root label instead of its own.
ScopedLogger_source_Raw(e) == Raw

ScopedLogger_source(e) == e.source

\* ScopedLogger::send with a fault seeded: the line is printed after the send,
\* and only when the channel took the message.
ScopedLogger_send_PrintIfSent(e, m) ==
    LET res == ChannelSend(m) IN
    [stdout |-> IF e.stdout /\ res.ok THEN <<to_string(m)>> ELSE <<>>, res |-> res]

ScopedLogger_send(e, m) ==
    [stdout |-> IF e.stdout THEN <<to_string(m)>> ELSE <<>>, res |-> ChannelSend(m)]

\* The trait's required methods, dispatched on the implementing type.
log_level(e) ==
    IF e.type = "Logger" THEN Logger_log_level(e) ELSE ScopedLogger_log_level(e)

source(e) == IF e.type = "Logger" THEN Logger_source(e) ELSE ScopedLogger_source(e)

send(e, m) == IF e.type = "Logger" THEN Logger_send(e, m) ELSE ScopedLogger_send(e, m)

\* What a call did: the queue after it, the lines it wrote, and how it ended.
Effect(q, out, err, outcome) ==
    [queue |-> q, stdout |-> out, stderr |-> err, outcome |-> outcome]

\* Log::log with a fault seeded: the filter is not asked.
Log_log_Unfiltered(e, message, level, now) ==
    LET m == LogMessage(message, level, source(e), U128New(now))
        r == send(e, m)
    IN IF ~r.res.ok
       THEN Effect(r.res.queue, r.stdout, <<ErrorSending>>, "send_failed")
       ELSE Effect(r.res.queue, r.stdout, <<>>, "sent")

\* Log::log with a fault seeded: the result of send is unwrapped, so a failed
\* send panics in the caller.
Log_log_Unwrap(e, message, level, now) ==
    IF is_enabled(log_level(e), level)
    THEN LET m == LogMessage(message, level, source(e), U128New(now))
             r == send(e, m)
         IN IF ~r.res.ok
            THEN Effect(r.res.queue, r.stdout, <<>>, "panicked")
            ELSE Effect(r.res.queue, r.stdout, <<>>, "sent")
    ELSE Effect(queue, <<>>, <<>>, "filtered")

\* Log::log, the trait's provided method; now is the clock's reading.
Log_log(e, message, level, now) ==
    IF is_enabled(log_level(e), level)
    THEN LET m == LogMessage(message, level, source(e), U128New(now))
             r == send(e, m)
         IN IF ~r.res.ok
            THEN Effect(r.res.queue, r.stdout, <<ErrorSending>>, "send_failed")
            ELSE Effect(r.res.queue, r.stdout, <<>>, "sent")
    ELSE Effect(queue, <<>>, <<>>, "filtered")

\* Log::error with a fault seeded: the message is logged as a warning.
Log_error_AsWarn(e, message, now) == Log_log(e, message, Warn, now)

Log_error(e, message, now) == Log_log(e, message, Error, now)

\* import_deserialize with a fault seeded: the empty text is not returned on.
Logger_import_deserialize_NoEmptyCheck(e, message, now) ==
    LET p == from_str_LogMessage(message) IN
    IF p.ok
    THEN LET r == Logger_send(e, p.value) IN
         IF ~r.res.ok
         THEN Effect(r.res.queue, r.stdout, <<ErrorSending>>, "import_send_failed")
         ELSE Effect(r.res.queue, r.stdout, <<>>, "imported")
    ELSE LET r == Log_error(e, FailedToDeserialize \o message, now) IN
         [r EXCEPT !.outcome = "parse_" \o r.outcome]

\* import_deserialize with a fault seeded: the parsed event is stamped with the
\* emitter's source and the current time.
Logger_import_deserialize_Restamp(e, message, now) ==
    IF message = <<>> THEN Effect(queue, <<>>, <<>>, "ignored")
    ELSE LET p == from_str_LogMessage(message) IN
         IF p.ok
         THEN LET r == Logger_send(e, [p.value EXCEPT !.source = Logger_source(e),
                                                      !.time = U128New(now)]) IN
              IF ~r.res.ok
              THEN Effect(r.res.queue, r.stdout, <<ErrorSending>>, "import_send_failed")
              ELSE Effect(r.res.queue, r.stdout, <<>>, "imported")
         ELSE LET r == Log_error(e, FailedToDeserialize \o message, now) IN
              [r EXCEPT !.outcome = "parse_" \o r.outcome]

Logger_import_deserialize(e, message, now) ==
    IF message = <<>> THEN Effect(queue, <<>>, <<>>, "ignored")
    ELSE LET p == from_str_LogMessage(message) IN
         IF p.ok
         THEN LET r == Logger_send(e, p.value) IN
              IF ~r.res.ok
              THEN Effect(r.res.queue, r.stdout, <<ErrorSending>>, "import_send_failed")
              ELSE Effect(r.res.queue, r.stdout, <<>>, "imported")
         ELSE LET r == Log_error(e, FailedToDeserialize \o message, now) IN
              [r EXCEPT !.outcome = "parse_" \o r.outcome]

\* ScopedLogger::import_deserialize with a fault seeded: a parsed event goes
\* through the filter as a logged one does.
ScopedLogger_import_deserialize_Filtered(e, message, now) ==
    IF message = <<>> THEN Effect(queue, <<>>, <<>>, "ignored")
    ELSE LET p == from_str_LogMessage(message) IN
         IF p.ok
         THEN IF ~is_enabled(ScopedLogger_log_level(e), p.value.level)
              THEN Effect(queue, <<>>, <<>>, "filtered")
              ELSE LET r == ScopedLogger_send(e, p.value) IN
                   IF ~r.res.ok
                   THEN Effect(r.res.queue, r.stdout, <<ErrorSending>>, "import_send_failed")
                   ELSE Effect(r.res.queue, r.stdout, <<>>, "imported")
         ELSE LET r == Log_error(e, FailedToDeserialize \o message, now) IN
              [r EXCEPT !.outcome = "parse_" \o r.outcome]

ScopedLogger_import_deserialize(e, message, now) ==
    IF message = <<>> THEN Effect(queue, <<>>, <<>>, "ignored")
    ELSE LET p == from_str_LogMessage(message) IN
         IF p.ok
         THEN LET r == ScopedLogger_send(e, p.value) IN
              IF ~r.res.ok
              THEN Effect(r.res.queue, r.stdout, <<ErrorSending>>, "import_send_failed")
              ELSE Effect(r.res.queue, r.stdout, <<>>, "imported")
         ELSE LET r == Log_error(e, FailedToDeserialize \o message, now) IN
              [r EXCEPT !.outcome = "parse_" \o r.outcome]

import_deserialize(e, message, now) ==
    IF e.type = "Logger" THEN Logger_import_deserialize(e, message, now)
    ELSE ScopedLogger_import_deserialize(e, message, now)

Logger_new(filter, stdout) ==
    [cells |-> <<filter>>,
     logger |-> [type |-> "Logger", log_level |-> 1, source |-> Raw, stdout |-> stdout]]

ScopedLogger_new(cell, label, stdout) ==
    [type |-> "ScopedLogger", log_level |-> cell, source |-> label, stdout |-> stdout]

Logger_new_scoped(label) ==
    LET c == RArcClone(logger.log_level) IN
    [cells |-> c.cells, emitter |-> ScopedLogger_new(c.cell, label, logger.stdout)]

Logger_set_log_level(filter) == [cells EXCEPT ![logger.log_level] = filter]

\* The loop of Logger::get: try_recv until the channel is empty.
RECURSIVE TryRecvAll(_, _)
TryRecvAll(q, messages) ==
    IF q = <<>> THEN [messages |-> messages, queue |-> q]
    ELSE TryRecvAll(Tail(q), Append(messages, Head(q)))

\* Logger::get with a fault seeded: an if-let where the while-let stands, so at
\* most one message is received.
Logger_get_One ==
    IF queue = <<>> THEN [messages |-> <<>>, queue |-> queue]
    ELSE [messages |-> <<Head(queue)>>, queue |-> Tail(queue)]

Logger_get == TryRecvAll(queue, <<>>)

---------------------------------------------------------------------------
(* The state machine: one action per call.                                 *)

\* The emitters a caller can hold: the Logger while it lives, and every
\* ScopedLogger handed out.
Emitters == (IF logger_alive THEN {logger} ELSE {}) \cup scoped

NoCall ==
    [op |-> "none", levels |-> <<>>, mask |-> 0, level |-> Trace,
     done |-> FALSE, f |-> from_min_level(Trace), enabled |-> FALSE]

\* A call as the history records it: the method, the emitter it was made on,
\* its text and level arguments, and how it ended.
Called(op, e, text, level, outcome) ==
    [op |-> op, e |-> e, text |-> text, level |-> level, outcome |-> outcome]

Init ==
    \E filter \in Filters, mirror \in BOOLEAN :
        LET n == Logger_new(filter, mirror) IN
        /\ logger = n.logger
        /\ cells = n.cells
        /\ logger_alive = TRUE
        /\ scoped = {}
        /\ queue = <<>>
        /\ stdout_written = <<>>
        /\ stderr_written = <<>>
        /\ ret = <<>>
        /\ sent = <<>>
        /\ received = <<>>
        /\ before = <<>>
        /\ requested = filter
        /\ last = Called("new", n.logger, <<>>, Trace, "done")
        /\ probe = NoCall
        /\ ConfigIdle
        /\ LoaderIdle
        /\ ThreadsIdle

\* The messages a call added to the queue.
Added(q) == SubSeq(q, Len(queue) + 1, Len(q))

\* A call of an emitter takes effect.
Apply(op, e, text, level, eff) ==
    /\ Len(sent) + Len(Added(eff.queue)) <= MaxSent
    /\ queue' = eff.queue
    /\ stdout_written' = eff.stdout
    /\ stderr_written' = eff.stderr
    /\ ret' = <<>>
    /\ sent' = sent \o Added(eff.queue)
    /\ before' = queue
    /\ last' = Called(op, e, text, level, eff.outcome)
    /\ UNCHANGED <<logger, logger_alive, cells, scoped, received, requested, probe, config_vars, loader_vars, thread_vars>>

Log(e, message, level) ==
    /\ e \in Emitters
    /\ \E now \in Now : Apply("log", e, message, level, Log_log(e, message, level, now))

ImportDeserialize(e, text) ==
    /\ e \in Emitters
    /\ \E now \in Now :
           Apply("import_deserialize", e, text, Trace, import_deserialize(e, text, now))

NewScoped(label) ==
    /\ logger_alive
    /\ LET n == Logger_new_scoped(label) IN
       /\ cells' = n.cells
       /\ scoped' = scoped \cup {n.emitter}
    /\ stdout_written' = <<>>
    /\ stderr_written' = <<>>
    /\ ret' = <<>>
    /\ before' = queue
    /\ last' = Called("new_scoped", logger, label, Trace, "done")
    /\ UNCHANGED <<logger, logger_alive, queue, sent, received, requested, probe, config_vars, loader_vars, thread_vars>>

SetLogLevel(filter) ==
    /\ logger_alive
    /\ cells' = Logger_set_log_level(filter)
    /\ requested' = filter
    /\ stdout_written' = <<>>
    /\ stderr_written' = <<>>
    /\ ret' = <<>>
    /\ before' = queue
    /\ last' = Called("set_log_level", logger, <<>>, Trace, "done")
    /\ UNCHANGED <<logger, logger_alive, scoped, queue, sent, received, probe, config_vars, loader_vars, thread_vars>>

Get ==
    /\ logger_alive
    /\ LET g == Logger_get IN
       /\ ret' = g.messages
       /\ queue' = g.queue
       /\ received' = received \o g.messages
    /\ stdout_written' = <<>>
    /\ stderr_written' = <<>>
    /\ before' = queue
    /\ last' = Called("get", logger, <<>>, Trace, "done")
    /\ UNCHANGED <<logger, logger_alive, cells, scoped, sent, requested, probe, config_vars, loader_vars, thread_vars>>

\* The Logger goes out of scope: its receiver and its own sender are dropped,
\* the ScopedLoggers live on.
DropLogger ==
    /\ logger_alive
    /\ logger_alive' = FALSE
    /\ stdout_written' = <<>>
    /\ stderr_written' = <<>>
    /\ ret' = <<>>
    /\ before' = queue
    /\ last' = Called("drop", logger, <<>>, Trace, "done")
    /\ UNCHANGED <<logger, cells, scoped, queue, sent, received, requested, probe, config_vars, loader_vars, thread_vars>>

Next ==
    \/ \E e \in Emitters, message \in Messages, level \in Severities : Log(e, message, level)
    \/ \E e \in Emitters, text \in Texts : ImportDeserialize(e, text)
    \/ \E label \in Labels : NewScoped(label)
    \/ \E filter \in Filters : SetLogLevel(filter)
    \/ Get
    \/ DropLogger

Spec == Init /\ [][Next]_vars

---------------------------------------------------------------------------
(* The filter's functions on their own: each step evaluates one of them on *)
(* inputs of its domain.                                                   *)

\* Lists of at most n levels.
RECURSIVE LevelLists(_)
LevelLists(n) ==
    IF n = 0 THEN {<<>>}
    ELSE LevelLists(n - 1)
         \cup {Append(l, x) : l \in {k \in LevelLists(n - 1) : Len(k) = n - 1}, x \in LogLevel}

\* A call to make: the function, its arguments, and the level then asked about.
Call(op, levels, mask, level) ==
    [op |-> op, levels |-> levels, mask |-> mask, level |-> level,
     done |-> FALSE, f |-> from_min_level(Trace), enabled |-> FALSE]

FilterCalls ==
    {Call("from_min_level", <<t>>, 0, level) : t \in LogLevel, level \in LogLevel}
    \cup {Call("from_mask", <<>>, mask, level) : mask \in U8, level \in LogLevel}
    \cup {Call("from_levels", levels, 0, level) :
              levels \in LevelLists(MaxLevels), level \in LogLevel}

InitFilter ==
    LET n == Logger_new(from_min_level(Info), FALSE) IN
    /\ logger = n.logger
    /\ cells = n.cells
    /\ logger_alive = TRUE
    /\ scoped = {}
    /\ queue = <<>>
    /\ stdout_written = <<>>
    /\ stderr_written = <<>>
    /\ ret = <<>>
    /\ sent = <<>>
    /\ received = <<>>
    /\ before = <<>>
    /\ requested = from_min_level(Info)
    /\ last = Called("new", n.logger, <<>>, Trace, "done")
    /\ probe \in FilterCalls
    /\ ConfigIdle
    /\ LoaderIdle
    /\ ThreadsIdle

Unprobed == UNCHANGED <<logging_vars, config_vars, loader_vars, thread_vars>>

\* The filter f is built and asked whether it enables the level.
Asked(f) ==
    /\ ~probe.done
    /\ probe' = [probe EXCEPT !.done = TRUE, !.f = f,
                              !.enabled = is_enabled(f, probe.level)]
    /\ Unprobed

IsEnabledMinLevel ==
    /\ probe.op = "from_min_level"
    /\ Asked(from_min_level(probe.levels[1]))

IsEnabledMask ==
    /\ probe.op = "from_mask"
    /\ Asked(Custom(from_mask(probe.mask)))

IsEnabledLevels ==
    /\ probe.op = "from_levels"
    /\ Asked(from_levels(probe.levels))

NextFilter == IsEnabledMinLevel \/ IsEnabledMask \/ IsEnabledLevels

SpecFilter == InitFilter /\ [][NextFilter]_vars

---------------------------------------------------------------------------
(* The logging state at rest, for the specifications of the other parts.   *)

LoggingAtRest ==
    LET n == Logger_new(from_min_level(Info), FALSE) IN
    /\ logger = n.logger
    /\ cells = n.cells
    /\ logger_alive = TRUE
    /\ scoped = {}
    /\ queue = <<>>
    /\ stdout_written = <<>>
    /\ stderr_written = <<>>
    /\ ret = <<>>
    /\ sent = <<>>
    /\ received = <<>>
    /\ before = <<>>
    /\ requested = from_min_level(Info)
    /\ last = Called("new", n.logger, <<>>, Trace, "done")

LoggingIdle == LoggingAtRest /\ probe = NoCall

Unlogged == UNCHANGED <<logging_vars, probe, loader_vars, thread_vars>>

---------------------------------------------------------------------------
(* struct Config (src/src/lib.rs): entries: RHashMap<RString, EntryType>.  *)

\* Entries one Config holds in the model (an RHashMap grows as needed).
MaxEntries == 2

\* Option<T> and ROption<T>.
None == [some |-> FALSE]
Some(x) == [some |-> TRUE, value |-> x]
RNone == [some |-> FALSE]
RSome(x) == [some |-> TRUE, value |-> x]

\* enum EntryType. An f64 is written in tenths.
EntryString(value) == [tag |-> "String", value |-> value]
EntryBool(value) == [tag |-> "Bool", value |-> value]
EntryInt(value, min, max) == [tag |-> "Int", value |-> value, min |-> min, max |-> max]
EntryFloat(value, min, max) == [tag |-> "Float", value |-> value, min |-> min, max |-> max]
EntryEnum(value, options) == [tag |-> "Enum", value |-> value, options |-> options]

\* struct EnumEntry, built from (name, value).
EnumEntry(name, value) == [value |-> value, name |-> name]

\* RHashMap: a map from keys to values, in no order.
RHashMap_new == <<>>
RHashMap_get(m, key) == IF key \in DOMAIN m THEN Some(m[key]) ELSE None
RHashMap_insert(m, key, value) ==
    [k \in DOMAIN m \cup {key} |-> IF k = key THEN value ELSE m[k]]
RHashMap_remove(m, key) == [k \in DOMAIN m \ {key} |-> m[k]]
RHashMap_is_empty(m) == DOMAIN m = {}

\* Option::or_else: the alternative is taken only when the option is None.
OrElse(opt, alt) == IF opt.some THEN opt ELSE alt

Config_new == RHashMap_new

\* Config::get_or_default with a fault seeded: the defaults are asked first.
Config_get_or_default_DefaultsFirst(self, key, defaults) ==
    OrElse(RHashMap_get(defaults, key), RHashMap_get(self, key))

Config_get_or_default(self, key, defaults) ==
    OrElse(RHashMap_get(self, key), RHashMap_get(defaults, key))

\* The two Configs after get_or_default, with a fault seeded: a value found in
\* the defaults only is put into self on the way out.
Config_get_or_default_stores_FallbackKept(self, key, defaults) ==
    LET own == RHashMap_get(self, key)
        fallback == RHashMap_get(defaults, key)
    IN  [self |-> IF ~own.some /\ fallback.some
                  THEN RHashMap_insert(self, key, fallback.value) ELSE self,
         defaults |-> defaults]

\* The two Configs after get_or_default: both are borrowed (&self, &Config),
\* get lends a reference into the map and cloned copies what it points at, so
\* each map keeps what it held.
Config_get_or_default_stores(self, key, defaults) ==
    [self |-> self, defaults |-> defaults]

Config_get(self, key) == RHashMap_get(self, key)

\* The value v held to the bounds lo and hi, where they are given.
Clamp(v, lo, hi) ==
    IF lo.some /\ v < lo.value THEN lo.value
    ELSE IF hi.some /\ v > hi.value THEN hi.value
    ELSE v

\* Config::insert with a fault seeded: a number is held to the bounds it
\* declares, an Enum index to its options.
Config_insert_Clamped(self, key, value) ==
    RHashMap_insert(self, key,
        CASE value.tag \in {"Int", "Float"} ->
                 [value EXCEPT !.value = Clamp(value.value, value.min, value.max)]
          [] value.tag = "Enum" ->
                 [value EXCEPT !.value =
                      IF \E i \in 1..Len(value.options) : value.options[i].value = value.value
                      THEN value.value ELSE 0]
          [] OTHER -> value)

Config_insert(self, key, value) == RHashMap_insert(self, key, value)

Config_remove(self, key) == RHashMap_remove(self, key)

Config_empty(self) == RHashMap_is_empty(self)

\* The byte of each character the keys are written with.
Byte(c) == CASE c = "B" -> 66 [] c = "a" -> 97 [] c = "b" -> 98

\* Ord for RString: s before t, byte by byte, a prefix before its extensions.
RECURSIVE StrLess(_, _)
StrLess(s, t) ==
    IF Len(t) = 0 THEN FALSE
    ELSE IF Len(s) = 0 THEN TRUE
    ELSE IF Byte(Head(s)) # Byte(Head(t)) THEN Byte(Head(s)) < Byte(Head(t))
    ELSE StrLess(Tail(s), Tail(t))

Tuple2(k, v) == [key |-> k, value |-> v]

\* BTreeMap::insert on the map's entries in key order: the entry takes its
\* place by key, over an entry of the same key.
RECURSIVE BTreeMap_insert(_, _)
BTreeMap_insert(t, e) ==
    IF Len(t) = 0 THEN <<e>>
    ELSE IF Head(t).key = e.key THEN <<e>> \o Tail(t)
    ELSE IF StrLess(e.key, Head(t).key) THEN <<e>> \o t
    ELSE <<Head(t)>> \o BTreeMap_insert(Tail(t), e)

\* Iterator::collect into a BTreeMap.
RECURSIVE BTreeMap_collect(_, _)
BTreeMap_collect(items, t) ==
    IF Len(items) = 0 THEN t
    ELSE BTreeMap_collect(Tail(items), BTreeMap_insert(t, Head(items)))

\* RHashMap::iter: the entries one by one, in an order the map chooses.
RHashMap_iter(m) ==
    {order \in [1..Cardinality(DOMAIN m) -> {Tuple2(k, m[k]) : k \in DOMAIN m}] :
         \A i, j \in DOMAIN order : i # j => order[i] # order[j]}

\* ordered_map with a fault seeded: the entries are serialized as iterated.
ordered_map_AsIterated(items) == items

\* ordered_map: what the map serializer is given, entry by entry, when the
\* map's iterator yields items.
ordered_map(items) == BTreeMap_collect(items, <<>>)

\* The Configs a host holds for one plugin: the user's overrides and the
\* defaults the plugin declares.
Stores == {"user", "defaults"}

\* The other of the two Configs.
Other(store) == CHOOSE o \in Stores : o # store

Keys == {<<"a">>, <<"a", "b">>, <<"B">>}

\* The values inserted into each: overrides a user has set, and the entries a
\* plugin's get_config_entries declares.
Values ==
    [user |-> {EntryInt(999, RNone, RNone),
               EntryFloat(25, RSome(0), RSome(10))},
     defaults |-> {EntryInt(10, RSome(1), RSome(100)),
                   EntryEnum(7, <<EnumEntry(<<"a">>, 0), EnumEntry(<<"b">>, 1)>>)}]

\* A call as the history records it, with the Configs as the call found them.
ConfigCalled(op, store, key, value, result) ==
    [op |-> op, store |-> store, key |-> key, value |-> value, result |-> result,
     before |-> configs]

InitConfig ==
    /\ LoggingIdle
    /\ LoaderIdle
    /\ ThreadsIdle
    /\ configs = [s \in Stores |-> Config_new]
    /\ config_call = ConfigCalled("new", "user", <<>>, None, None)

ConfigInsert(store, key, value) ==
    LET entries == Config_insert(configs[store], key, value) IN
    /\ Cardinality(DOMAIN entries) <= MaxEntries
    /\ configs' = [configs EXCEPT ![store] = entries]
    /\ config_call' = ConfigCalled("insert", store, key, Some(value), None)
    /\ Unlogged

ConfigRemove(store, key) ==
    /\ configs' = [configs EXCEPT ![store] = Config_remove(configs[store], key)]
    /\ config_call' = ConfigCalled("remove", store, key, None, None)
    /\ Unlogged

ConfigGet(store, key) ==
    /\ config_call' = ConfigCalled("get", store, key, None, Config_get(configs[store], key))
    /\ UNCHANGED configs
    /\ Unlogged

\* store.get_or_default(key, &other).
ConfigGetOrDefault(store, key, other) ==
    /\ config_call' = ConfigCalled("get_or_default", store, key, None,
                                   Config_get_or_default(configs[store], key, configs[other]))
    /\ LET after == Config_get_or_default_stores(configs[store], key, configs[other]) IN
       configs' = [configs EXCEPT ![store] = after.self, ![other] = after.defaults]
    /\ Unlogged

\* The Config is serialized: its entries field goes through ordered_map.
ConfigSerialize(store) ==
    /\ \E items \in RHashMap_iter(configs[store]) :
           config_call' = ConfigCalled("serialize", store, <<>>, None, ordered_map(items))
    /\ UNCHANGED configs
    /\ Unlogged

NextConfig ==
    \/ \E store \in Stores, key \in Keys :
           \E value \in Values[store] : ConfigInsert(store, key, value)
    \/ \E store \in Stores, key \in Keys : ConfigRemove(store, key)
    \/ \E store \in Stores, key \in Keys : ConfigGet(store, key)
    \/ \E store \in Stores, key \in Keys : ConfigGetOrDefault(store, key, Other(store))
    \/ \E store \in Stores : ConfigSerialize(store)

SpecConfig == InitConfig /\ [][NextConfig]_vars

---------------------------------------------------------------------------
(* load_library (src/src/lib.rs) and the plugin a host loads with it.      *)

\* Result<T, E>.
Ok(v) == [ok |-> TRUE, value |-> v]
Err(e) == [ok |-> FALSE, error |-> e]

\* What can lie at a path: nothing, a file that is no dynamic library, or a
\* dynamic library, with or without the root module's loader symbol, whose
\* root module has a version and a layout that agree or not with those
\* SearchLib_Ref was compiled with.
File(exists, library, symbol, version, layout) ==
    [exists |-> exists, library |-> library, symbol |-> symbol,
     version |-> version, layout |-> layout]

Missing == File(FALSE, FALSE, FALSE, FALSE, FALSE)
NotALibrary == File(TRUE, FALSE, FALSE, FALSE, FALSE)
NoRootModule == File(TRUE, TRUE, FALSE, FALSE, FALSE)
OtherVersion == File(TRUE, TRUE, TRUE, FALSE, TRUE)
OtherLayout == File(TRUE, TRUE, TRUE, TRUE, FALSE)
Plugin == File(TRUE, TRUE, TRUE, TRUE, TRUE)

Files == {Missing, NotALibrary, NoRootModule, OtherVersion, OtherLayout, Plugin}

Paths == {"plugins/a", "plugins/b"}

\* enum LibraryError, the variants these steps return.
OpenError(path) == [tag |-> "OpenError", path |-> path]
GetSymbolError(path) == [tag |-> "GetSymbolError", library |-> path]
IncompatibleVersionNumber(path) == [tag |-> "IncompatibleVersionNumber", library |-> path]
AbiInstability(path) == [tag |-> "AbiInstability", library |-> path]

\* abi_stable::library::lib_header_from_path: opens the dynamic library and
\* reads the header its root module loader symbol points to.
lib_header_from_path(path) ==
    IF ~(fs[path].exists /\ fs[path].library) THEN Err(OpenError(path))
    ELSE IF ~fs[path].symbol THEN Err(GetSymbolError(path))
    ELSE Ok([library |-> path])

\* struct SearchLib behind its prefix reference SearchLib_Ref: the root
\* module of the library, with its one field get_searchable.
SearchLib_Ref(path) == [library |-> path, get_searchable |-> path]

\* LibHeader::init_root_module::<SearchLib_Ref>: checks the version, then the
\* layout, and hands out the root module.
init_root_module(header) ==
    IF ~fs[header.library].version THEN Err(IncompatibleVersionNumber(header.library))
    ELSE IF ~fs[header.library].layout THEN Err(AbiInstability(header.library))
    ELSE Ok(SearchLib_Ref(header.library))

\* LibHeader::init_root_module_with_unchecked_layout::<SearchLib_Ref>.
init_root_module_with_unchecked_layout(header) ==
    IF ~fs[header.library].version THEN Err(IncompatibleVersionNumber(header.library))
    ELSE Ok(SearchLib_Ref(header.library))

\* load_library with a fault seeded: the layout is not checked.
load_library_UncheckedLayout(path) ==
    LET header == lib_header_from_path(path) IN
    IF header.ok THEN init_root_module_with_unchecked_layout(header.value) ELSE header

\* load_library with a fault seeded: every failure is reported as a failure
\* to open the file.
load_library_OpenErrorOnly(path) ==
    LET header == lib_header_from_path(path)
        r == IF header.ok THEN init_root_module(header.value) ELSE header
    IN  IF r.ok THEN r ELSE Err(OpenError(path))

\* load_library: lib_header_from_path, and_then init_root_module: the second
\* step runs on the header of an Ok only; an Err is handed on as it is.
load_library(path) ==
    LET header == lib_header_from_path(path) IN
    IF header.ok THEN init_root_module(header.value) ELSE header

\* struct PluginId.
PluginId(filename) == [filename |-> filename]

\* The SearchableBox the library's get_searchable returns for the id.
get_searchable(module, id) == [library |-> module.get_searchable, plugin_id |-> id]

\* The resources of a loaded plugin, in the order they are released in.
TeardownOrder_LibraryFirst == <<"library", "module", "handle">>

TeardownOrder == <<"handle", "module", "library">>

\* A loaded plugin: the capability handle, the verified module reference and
\* the raw library handle it owns, and the resources released so far.
LoadedPlugin(handle, module, library) ==
    [handle |-> handle, module |-> module, library |-> library, released |-> <<>>]

\* The plugin is being destroyed or is destroyed.
Destroyed(p) == Len(p.released) = Len(TeardownOrder)

Unloading == UNCHANGED <<logging_vars, probe, config_vars, thread_vars>>

InitLoader ==
    /\ LoggingIdle
    /\ ConfigIdle
    /\ ThreadsIdle
    /\ fs \in [Paths -> Files]
    /\ load_result = [p \in Paths |-> None]
    /\ factory_called = [p \in Paths |-> FALSE]
    /\ plugin = [p \in Paths |-> None]

\* load_library(path) is called and returns.
LoadLibrary(path) ==
    /\ load_result' = [load_result EXCEPT ![path] = Some(load_library(path))]
    /\ UNCHANGED <<fs, factory_called, plugin>>
    /\ Unloading

\* With the module load_library returned, the host calls the library's
\* get_searchable and keeps what it owns of the plugin.
GetSearchable(path) ==
    /\ load_result[path].some
    /\ load_result[path].value.ok
    /\ plugin[path].some => Destroyed(plugin[path].value)
    /\ LET module == load_result[path].value.value
           handle == get_searchable(module, PluginId(path))
       IN plugin' = [plugin EXCEPT ![path] = Some(LoadedPlugin(handle, module, module.library))]
    /\ factory_called' = [factory_called EXCEPT ![path] = TRUE]
    /\ UNCHANGED <<fs, load_result>>
    /\ Unloading

\* One step of destroying a loaded plugin: the next of its resources is
\* released.
Release(path) ==
    /\ plugin[path].some
    /\ ~Destroyed(plugin[path].value)
    /\ LET p == plugin[path].value IN
       plugin' = [plugin EXCEPT ![path] =
           Some([p EXCEPT !.released = Append(@, TeardownOrder[Len(@) + 1])])]
    /\ UNCHANGED <<fs, load_result, factory_called>>
    /\ Unloading

NextLoader ==
    \/ \E path \in Paths : LoadLibrary(path)
    \/ \E path \in Paths : GetSearchable(path)
    \/ \E path \in Paths : Release(path)

SpecLoader == InitLoader /\ [][NextLoader]_vars

---------------------------------------------------------------------------
(* U128Wrapper on its own: each step wraps one or two u128 values.         *)

\* u128::cmp.
Cmp(a, b) == IF a < b THEN "Less" ELSE IF a = b THEN "Equal" ELSE "Greater"

\* Ord for U128Wrapper.
U128Wrapper_cmp(self, other) == Cmp(U128Get(self), U128Get(other))

\* PartialOrd for U128Wrapper.
U128Wrapper_partial_cmp(self, other) == Some(U128Wrapper_cmp(self, other))

\* A call to make on the wrappers of v and w.
U128Call(op, v, w) ==
    [op |-> op, v |-> v, w |-> w, done |-> FALSE, wrapped |-> U128New(0),
     got |-> 0, ordering |-> None]

InitU128 ==
    /\ LoggingAtRest
    /\ ConfigIdle
    /\ LoaderIdle
    /\ ThreadsIdle
    /\ \E v, w \in 0..U128Max :
           \/ probe = U128Call("cmp", v, w)
           \/ w = 0 /\ probe = U128Call("get", v, w)

\* U128Wrapper::new(v).get().
U128NewGet ==
    /\ probe.op = "get"
    /\ ~probe.done
    /\ LET wrapped == U128New(probe.v) IN
       probe' = [probe EXCEPT !.done = TRUE, !.wrapped = wrapped, !.got = U128Get(wrapped)]
    /\ Unprobed

\* U128Wrapper::new(v).partial_cmp(&U128Wrapper::new(w)).
U128PartialCmp ==
    /\ probe.op = "cmp"
    /\ ~probe.done
    /\ probe' = [probe EXCEPT !.done = TRUE, !.wrapped = U128New(probe.v),
                              !.ordering = U128Wrapper_partial_cmp(U128New(probe.v),
                                                                   U128New(probe.w))]
    /\ Unprobed

NextU128 == U128NewGet \/ U128PartialCmp

SpecU128 == InitU128 /\ [][NextU128]_vars

---------------------------------------------------------------------------
(* The channel under threads: producer threads, each with a ScopedLogger,  *)
(* call log while the host's thread calls Logger::get and                  *)
(* Logger::set_log_level. A call is a sequence of steps; the steps of      *)
(* different threads interleave.                                           *)

\* Messages waiting in the channel at a time, where no history bounds the
\* calls (the channel is unbounded).
MaxQueue == 2

\* Messages of one Logger::get that are followed, where no history bounds
\* the calls (the Vec grows as needed).
MaxDrained == 2

Producers == {"t1", "t2"}

Host == "host"

ThreadLabel == [t \in Producers |-> IF t = "t1" THEN <<"p">> ELSE <<"q">>]

ThreadSeverities == {Trace, Error}

ThreadFilters == {from_min_level(Warn), from_levels(<<Error, Trace>>)}

\* RMutex::lock with a fault seeded: the lock is given whoever holds it.
RMutex_lock_ready_Always(holder) == TRUE

\* RMutex::lock returns once nobody holds the mutex.
RMutex_lock_ready(holder) == ~holder.some

\* The bytes of a LogLevelOrCustom, #[repr(C)]: the tag and the payload.
Payload(f) == IF f.tag = "LogLevel" THEN f.l ELSE f.mask
Repr(tag, payload) == IF tag = "LogLevel" THEN LogLevelFilter(payload) ELSE Custom(payload)

\* The assignment through the lock guard, byte by byte.
WriteTag(f, new) == Repr(new.tag, Payload(f))
WritePayload(f, new) == Repr(f.tag, Payload(new))

\* RReceiver::recv: an empty channel makes the caller wait.
recv(q) ==
    IF q = <<>> THEN [blocked |-> TRUE, ok |-> FALSE, queue |-> q]
    ELSE [blocked |-> FALSE, ok |-> TRUE, value |-> Head(q), queue |-> Tail(q)]

\* RReceiver::try_recv: the oldest message, or an error at once when the
\* channel is empty.
try_recv(q) ==
    IF q = <<>> THEN [blocked |-> FALSE, ok |-> FALSE, queue |-> q]
    ELSE [blocked |-> FALSE, ok |-> TRUE, value |-> Head(q), queue |-> Tail(q)]

\* The messages followed after one more is pushed.
Push(messages, m, record) ==
    IF record \/ Len(messages) < MaxDrained THEN Append(messages, m) ELSE messages

\* One pass of the loop of Logger::get with a fault seeded: the message is put
\* at the front of the Vec.
Logger_get_pass_Front(q, messages, record) ==
    LET r == try_recv(q) IN
    IF r.ok
    THEN [blocked |-> FALSE, done |-> FALSE, queue |-> r.queue,
          messages |-> IF record \/ Len(messages) < MaxDrained
                       THEN <<r.value>> \o messages ELSE messages]
    ELSE [blocked |-> FALSE, done |-> TRUE, queue |-> r.queue, messages |-> messages]

\* One pass of the loop of Logger::get: try_recv, and push or leave the loop.
Logger_get_pass(q, messages, record) ==
    LET r == try_recv(q) IN
    IF r.blocked
    THEN [blocked |-> TRUE, done |-> FALSE, queue |-> q, messages |-> messages]
    ELSE IF r.ok
    THEN [blocked |-> FALSE, done |-> FALSE, queue |-> r.queue,
          messages |-> Push(messages, r.value, record)]
    ELSE [blocked |-> FALSE, done |-> TRUE, queue |-> r.queue, messages |-> messages]

\* A producer thread between calls.
Idle(e) ==
    [pc |-> "idle", e |-> e, message |-> <<>>, level |-> Trace,
     filter |-> from_min_level(Trace), seen |-> {}, outcome |-> "none"]

HostIdle == [pc |-> "idle", messages |-> <<>>, pending |-> from_min_level(Trace)]

InitThreads ==
    \E filter \in ThreadFilters :
        LET n == Logger_new(filter, FALSE) IN
        /\ logger = n.logger
        /\ cells = n.cells
        /\ logger_alive = TRUE
        /\ scoped = {Logger_new_scoped(ThreadLabel[t]).emitter : t \in Producers}
        /\ queue = <<>>
        /\ stdout_written = <<>>
        /\ stderr_written = <<>>
        /\ ret = <<>>
        /\ sent = <<>>
        /\ received = <<>>
        /\ before = <<>>
        /\ requested = filter
        /\ last = Called("new", n.logger, <<>>, Trace, "done")
        /\ probe = NoCall
        /\ ConfigIdle
        /\ LoaderIdle
        /\ threads = [t \in Producers |-> Idle(Logger_new_scoped(ThreadLabel[t]).emitter)]
        /\ consumer = HostIdle
        /\ guard = None
        /\ emitted = [t \in Producers |-> <<>>]

\* What no step of a thread changes.
Threading ==
    UNCHANGED <<logger, logger_alive, scoped, stdout_written, before, last, probe,
                config_vars, loader_vars>>

\* The calls of log that have not returned.
InFlight == Cardinality({t \in Producers : threads[t].pc \in {"log_level", "send"}})

\* The thread calls log(message, level) on its emitter.
LogCall(t, message, level, record) ==
    /\ threads[t].pc = "idle"
    /\ IF record THEN Len(sent) + InFlight < MaxSent
                 ELSE Len(queue) + InFlight < MaxQueue
    /\ threads' = [threads EXCEPT ![t] =
           [@ EXCEPT !.pc = "log_level", !.message = message, !.level = level,
                     !.seen = {requested}, !.outcome = "running"]]
    /\ UNCHANGED <<cells, queue, stderr_written, ret, sent, received, requested,
                   consumer, guard, emitted>>
    /\ Threading

\* self.log_level().is_enabled(level): the filter is copied under the lock
\* and asked.
LogReadFilter(t) ==
    /\ threads[t].pc = "log_level"
    /\ RMutex_lock_ready(guard)
    /\ LET f == log_level(threads[t].e) IN
       threads' = [threads EXCEPT ![t] =
           IF is_enabled(f, threads[t].level)
           THEN [@ EXCEPT !.pc = "send", !.filter = f]
           ELSE [@ EXCEPT !.pc = "idle", !.filter = f, !.outcome = "filtered"]]
    /\ UNCHANGED <<cells, queue, stderr_written, ret, sent, received, requested,
                   consumer, guard, emitted>>
    /\ Threading

\* The LogMessage is built and sent; a failed send is reported on stderr.
LogSend(t, record) ==
    /\ threads[t].pc = "send"
    /\ \E now \in Now :
           LET m == LogMessage(threads[t].message, threads[t].level,
                               source(threads[t].e), U128New(now))
               r == send(threads[t].e, m)
           IN /\ queue' = r.res.queue
              /\ stderr_written' = IF r.res.ok THEN <<>> ELSE <<ErrorSending>>
              /\ threads' = [threads EXCEPT ![t] =
                     [@ EXCEPT !.pc = "idle",
                               !.outcome = IF r.res.ok THEN "sent" ELSE "send_failed"]]
              /\ sent' = IF record /\ r.res.ok THEN Append(sent, m) ELSE sent
              /\ emitted' = IF record /\ r.res.ok
                            THEN [emitted EXCEPT ![t] = Append(@, m)] ELSE emitted
    /\ UNCHANGED <<cells, ret, received, requested, consumer, guard>>
    /\ Threading

\* The producer thread ends.
Exit(t) ==
    /\ threads[t].pc = "idle"
    /\ threads' = [threads EXCEPT ![t] = [@ EXCEPT !.pc = "exited"]]
    /\ UNCHANGED <<cells, queue, stderr_written, ret, sent, received, requested,
                   consumer, guard, emitted>>
    /\ Threading

\* The host calls Logger::get: let mut messages = Vec::new().
GetCall ==
    /\ consumer.pc = "idle"
    /\ consumer' = [consumer EXCEPT !.pc = "try_recv", !.messages = <<>>]
    /\ UNCHANGED <<cells, queue, stderr_written, ret, sent, received, requested,
                   threads, guard, emitted>>
    /\ Threading

\* One pass of the loop of Logger::get; when try_recv fails, get returns the
\* messages.
GetTryRecv(record) ==
    /\ consumer.pc = "try_recv"
    /\ LET pass == Logger_get_pass(queue, consumer.messages, record) IN
       IF pass.blocked
       THEN UNCHANGED <<queue, consumer, ret, received>>
       ELSE /\ queue' = pass.queue
            /\ consumer' = [consumer EXCEPT !.pc = IF pass.done THEN "idle" ELSE "try_recv",
                                            !.messages = pass.messages]
            /\ ret' = IF pass.done THEN pass.messages ELSE ret
            /\ received' = IF pass.done /\ record
                           THEN received \o pass.messages ELSE received
    /\ UNCHANGED <<cells, stderr_written, sent, requested, threads, guard, emitted>>
    /\ Threading

\* The host calls Logger::set_log_level(filter).
SetCall(filter) ==
    /\ consumer.pc = "idle"
    /\ consumer' = [consumer EXCEPT !.pc = "lock", !.pending = filter]
    /\ UNCHANGED <<cells, queue, stderr_written, ret, sent, received, requested,
                   threads, guard, emitted>>
    /\ Threading

\* self.log_level.lock().
SetLock ==
    /\ consumer.pc = "lock"
    /\ RMutex_lock_ready(guard)
    /\ guard' = Some(Host)
    /\ consumer' = [consumer EXCEPT !.pc = "write_tag"]
    /\ UNCHANGED <<cells, queue, stderr_written, ret, sent, received, requested,
                   threads, emitted>>
    /\ Threading

\* The first byte of the assignment.
SetWriteTag ==
    /\ consumer.pc = "write_tag"
    /\ cells' = [cells EXCEPT ![logger.log_level] = WriteTag(@, consumer.pending)]
    /\ consumer' = [consumer EXCEPT !.pc = "write_payload"]
    /\ UNCHANGED <<queue, stderr_written, ret, sent, received, requested,
                   threads, guard, emitted>>
    /\ Threading

\* The rest of the assignment; the guard is dropped and the call returns.
SetWritePayload ==
    /\ consumer.pc = "write_payload"
    /\ cells' = Logger_set_log_level(consumer.pending)
    /\ guard' = None
    /\ requested' = consumer.pending
    /\ consumer' = [consumer EXCEPT !.pc = "idle"]
    /\ threads' = [t \in Producers |->
           IF threads[t].pc \in {"log_level", "send"}
           THEN [threads[t] EXCEPT !.seen = @ \cup {consumer.pending}]
           ELSE threads[t]]
    /\ UNCHANGED <<queue, stderr_written, ret, sent, received, emitted>>
    /\ Threading

\* The text of a thread's next message: the number of the message.
NextText(t) == Itoa(Len(emitted[t]) + 1)

NextThreads ==
    \/ \E t \in Producers, level \in ThreadSeverities : LogCall(t, NextText(t), level, TRUE)
    \/ \E t \in Producers : LogReadFilter(t)
    \/ \E t \in Producers : LogSend(t, TRUE)
    \/ GetCall
    \/ GetTryRecv(TRUE)
    \/ \E filter \in ThreadFilters : SetCall(filter)
    \/ SetLock
    \/ SetWriteTag
    \/ SetWritePayload

SpecThreads == InitThreads /\ [][NextThreads]_vars

\* The steps of the threads that are in a call: the scheduler gives each
\* thread its turn.
ProducerStep(t) == LogReadFilter(t) \/ LogSend(t, FALSE)

NextDrain ==
    \/ \E t \in Producers, message \in Messages : LogCall(t, message, Error, FALSE)
    \/ \E t \in Producers : LogReadFilter(t)
    \/ \E t \in Producers : LogSend(t, FALSE)
    \/ \E t \in Producers : Exit(t)
    \/ GetCall
    \/ GetTryRecv(FALSE)

\* Threads that log for as long as they like while the host drains: no
\* history is kept, every thread in a call is scheduled again and again.
SpecDrain ==
    /\ InitThreads
    /\ [][NextDrain]_vars
    /\ WF_vars(GetTryRecv(FALSE))
    /\ \A t \in Producers : WF_vars(ProducerStep(t))

---------------------------------------------------------------------------
(* The claims.                                                             *)

\* C1: a threshold filter Threshold(t) enables severity s if and only if
\* rank(s) >= rank(t): a Warn threshold enables exactly Warn and Error.
C1_ThresholdEnablesAtOrAbove ==
    (probe.op = "from_min_level" /\ probe.done) =>
        (probe.enabled <=> rank(probe.level) >= rank(probe.levels[1]))

\* Whether the bit of a level is set in a mask, by arithmetic.
BitIsSet(mask, level) == (mask \div level) % 2 = 1

\* C2: a mask filter Mask(m) enables severity s if and only if the bit of s is
\* set in m, the five severities having distinct power-of-two bits; a filter
\* built by from_levels(L) enables s if and only if s is in L, and
\* from_levels of the empty list enables nothing.
C2_MaskEnablesItsBits ==
    /\ \A a \in LogLevel : \E k \in 0..7 : a = Pow2(k)
    /\ \A a, b \in LogLevel : rank(a) # rank(b) => a # b
    /\ (probe.op = "from_mask" /\ probe.done) =>
           (probe.enabled <=> BitIsSet(probe.mask, probe.level))
    /\ (probe.op = "from_levels" /\ probe.done) =>
           /\ probe.f.tag = "Custom"
           /\ probe.enabled <=> (\E i \in 1..Len(probe.levels) : probe.levels[i] = probe.level)

\* C2's case: a list that names a level twice enables it, and only it.
C2_Witness ==
    /\ probe.op = "from_levels"
    /\ probe.done
    /\ probe.levels = <<Warn, Warn>>
    /\ probe.level = Warn
    /\ probe.enabled

\* The string s holds the string t as a contiguous part.
Contains(s, t) == \E i \in 0..(Len(s) - Len(t)) : SubSeq(s, i + 1, i + Len(t)) = t

\* The most recent call was this method on some emitter.
Did(op) == last.op = op

\* The serialized form of each event serialized elsewhere.
Serialized == [ev \in ForeignEvents |-> to_string(ev)]

\* C3: a log call whose severity the shared filter disables at the time of the
\* call leaves the queue unchanged and writes nothing to the console, for the
\* Logger and for a ScopedLogger, with console mirroring on or off.
C3_DisabledLogDoesNothing ==
    (Did("log") /\ ~is_enabled(requested, last.level)) =>
        (queue = before /\ stdout_written = <<>>)

\* C3's case: with mirroring on and a message waiting, a log call of a
\* ScopedLogger was filtered.
C3_Witness ==
    /\ Did("log")
    /\ last.e \in scoped
    /\ ~is_enabled(requested, last.level)
    /\ logger.stdout
    /\ Len(queue) = 1

\* C4: with the severity enabled and the consumer alive, a log call appends
\* exactly one event to the tail of the shared queue, carrying the given
\* message, the given severity and the emitter's label: "raw" for the Logger,
\* the label passed to new_scoped for a ScopedLogger.
C4_EnabledLogEnqueuesOne ==
    /\ Did("new_scoped") =>
           \E e \in scoped : e.type = "ScopedLogger" /\ e.source = last.text
    /\ (Did("log") /\ is_enabled(requested, last.level) /\ logger_alive) =>
           \E now \in Now :
               queue = Append(before,
                              LogMessage(last.text, last.level,
                                         IF last.e.type = "Logger" THEN Raw ELSE last.e.source,
                                         U128New(now)))

\* C4's case: an event of the Logger and an event of a ScopedLogger wait in
\* the same queue.
C4_Witness ==
    /\ Did("log")
    /\ last.outcome = "sent"
    /\ Len(queue) = 2
    /\ queue[1].source = Raw
    /\ queue[2].source \in Labels

\* C5, as claimed: whatever the filter, import_deserialize of a non-empty text
\* that does not parse enqueues exactly one new event, of severity Error,
\* whose message contains the text.
C5_MalformedAlwaysEnqueuesError ==
    (Did("import_deserialize") /\ last.text \in MalformedTexts) =>
        /\ Len(queue) = Len(before) + 1
        /\ SubSeq(queue, 1, Len(before)) = before
        /\ queue[Len(queue)].level = Error
        /\ Contains(queue[Len(queue)].message, last.text)

\* C5, amended: import_deserialize of a non-empty text that does not parse
\* goes through log at severity Error: when the shared filter enables Error and
\* the consumer is alive it enqueues exactly one new event, of severity Error,
\* with the emitter's label, whose message contains the text; otherwise it
\* enqueues nothing.
C5_MalformedEnqueuesErrorIfEnabled ==
    (Did("import_deserialize") /\ last.text \in MalformedTexts) =>
        IF is_enabled(requested, Error) /\ logger_alive
        THEN /\ Len(queue) = Len(before) + 1
             /\ SubSeq(queue, 1, Len(before)) = before
             /\ queue[Len(queue)].level = Error
             /\ queue[Len(queue)].source = last.e.source
             /\ Contains(queue[Len(queue)].message, last.text)
        ELSE queue = before

\* C5's case: a ScopedLogger imported a text that does not parse, and its Error
\* event waits at the tail of the queue.
C5_Witness ==
    /\ Did("import_deserialize")
    /\ last.text \in MalformedTexts
    /\ last.e \in scoped
    /\ Len(queue) = Len(before) + 1
    /\ queue[Len(queue)].level = Error

\* C6, as claimed: for any emitter, import_deserialize of a serialized event
\* enqueues exactly one event, equal to the original in all four fields.
C6_RoundTripAnyEmitter ==
    \A ev \in ForeignEvents :
        (Did("import_deserialize") /\ last.text = Serialized[ev]) =>
            queue = Append(before, ev)

\* C6, amended: while the consumer is alive, import_deserialize of a
\* serialized event enqueues exactly one event, equal to the original in all
\* four fields: source and timestamp are the event's, not the emitter's label
\* or the current time.
C6_RoundTripWhileAlive ==
    \A ev \in ForeignEvents :
        (Did("import_deserialize") /\ last.text = Serialized[ev] /\ logger_alive) =>
            queue = Append(before, ev)

\* C6's case: a ScopedLogger imported an event whose source is no label of an
\* emitter and whose timestamp, with both halves in use, is no reading of the
\* clock.
C6_Witness ==
    /\ Did("import_deserialize")
    /\ last.e \in scoped
    /\ logger_alive
    /\ \E ev \in ForeignEvents :
           /\ last.text = Serialized[ev]
           /\ ev.source \notin Labels \cup {Raw}
           /\ U128Get(ev.time) \notin Now
           /\ ev.time.first # 0 /\ ev.time.second # 0
           /\ queue = Append(before, ev)

\* C7: import_deserialize of the empty text does nothing, for every emitter
\* and every filter: the queue is unchanged, nothing is written, and no Error
\* event is made.
C7_EmptyImportDoesNothing ==
    (Did("import_deserialize") /\ last.text = <<>>) =>
        /\ queue = before
        /\ stdout_written = <<>>
        /\ stderr_written = <<>>

\* C7's case: the Logger imported the empty text with mirroring on, under a
\* filter that enables Error.
C7_Witness ==
    /\ Did("import_deserialize")
    /\ last.text = <<>>
    /\ last.e = logger
    /\ logger.stdout
    /\ is_enabled(requested, Error)

\* C8: Logger::get returns every message queued at the time of the call, oldest
\* first, and leaves the queue empty (an empty list from an empty queue); over
\* any sequence of calls, the messages returned so far followed by the
\* messages still queued are the messages accepted so far: none is lost and
\* none is returned twice.
C8_GetDrainsFifoExactlyOnce ==
    /\ Did("get") => (ret = before /\ queue = <<>>)
    /\ received \o queue = sent

\* C8's case: one get returned two different messages, and every message sent
\* has been returned.
C8_Witness ==
    /\ Did("get")
    /\ Len(ret) = 2
    /\ ret[1] # ret[2]
    /\ queue = <<>>
    /\ received = sent

\* The ways a call returns to its caller.
Returned ==
    {"filtered", "sent", "send_failed", "ignored", "imported", "import_send_failed",
     "parse_filtered", "parse_sent", "parse_send_failed"}

\* Whether the most recent call, a log or an import_deserialize, had a message
\* to send.
Attempted ==
    IF Did("log") THEN is_enabled(requested, last.level)
    ELSE \/ \E ev \in ForeignEvents : last.text = Serialized[ev]
         \/ last.text \in MalformedTexts /\ is_enabled(requested, Error)

\* C9: once the Logger is dropped, every log and import_deserialize call on a
\* ScopedLogger returns normally: the failed send is reported on standard
\* error only, and no queue state changes.
C9_DeadChannelFailsGracefully ==
    (~logger_alive /\ (Did("log") \/ Did("import_deserialize"))) =>
        /\ last.outcome \in Returned
        /\ queue = before
        /\ received \o queue = sent
        /\ stderr_written = IF Attempted THEN <<ErrorSending>> ELSE <<>>
        /\ \A i \in 1..Len(stdout_written) : stdout_written[i] # ErrorSending

\* C9's case: a ScopedLogger logged after the Logger was dropped, with a
\* message still queued, and the failed send was reported.
C9_Witness ==
    /\ ~logger_alive
    /\ Did("log")
    /\ last.e \in scoped
    /\ Attempted
    /\ queue # <<>>
    /\ stderr_written = <<ErrorSending>>

\* C10: the filter is shared: after set_log_level(f), every log call, on the
\* Logger and on every ScopedLogger whenever created, is filtered by f.
C10_FilterIsShared ==
    Did("log") => (last.outcome = "filtered" <=> ~is_enabled(requested, last.level))

\* C10's case: a ScopedLogger that once got a message of some level through
\* has a log call of that level filtered: the filter changed after the
\* ScopedLogger was made.
C10_Witness ==
    /\ Did("log")
    /\ last.outcome = "filtered"
    /\ last.e \in scoped
    /\ \E i \in 1..Len(sent) :
           /\ sent[i].source = last.e.source
           /\ sent[i].message = last.text
           /\ sent[i].level = last.level

\* C11: A.get_or_default(k, B) returns A's value for k when A contains k,
\* whatever B holds for k; otherwise B's value for k when B contains k;
\* otherwise absent.
C11_GetOrDefaultPrefersPrimary ==
    config_call.op = "get_or_default" =>
        LET A == configs[config_call.store]
            B == configs[Other(config_call.store)]
            k == config_call.key
        IN  /\ k \in DOMAIN A => config_call.result = Some(A[k])
            /\ (k \notin DOMAIN A /\ k \in DOMAIN B) => config_call.result = Some(B[k])
            /\ (k \notin DOMAIN A /\ k \notin DOMAIN B) => config_call.result = None

\* C11's case: both Configs hold the key, with different values, and the
\* primary's was returned.
C11_Witness ==
    /\ config_call.op = "get_or_default"
    /\ config_call.key \in DOMAIN configs["user"]
    /\ config_call.key \in DOMAIN configs["defaults"]
    /\ configs["user"][config_call.key] # configs["defaults"][config_call.key]
    /\ config_call.store = "user"
    /\ config_call.result = Some(configs["user"][config_call.key])

\* The number v lies outside the bounds lo and hi.
OutOfBounds(v, lo, hi) == (lo.some /\ v < lo.value) \/ (hi.some /\ v > hi.value)

\* C12: the store enforces no bounds: an inserted value is stored as given,
\* whatever min/max or options it or the other store declares for the key,
\* and get and get_or_default return the stored value unchanged.
C12_NoBoundsEnforced ==
    /\ config_call.op = "insert" =>
           /\ config_call.key \in DOMAIN configs[config_call.store]
           /\ configs[config_call.store][config_call.key] = config_call.value.value
    /\ (config_call.op \in {"get", "get_or_default"}
            /\ config_call.key \in DOMAIN configs[config_call.store]) =>
           config_call.result = Some(configs[config_call.store][config_call.key])

\* C12's case: the defaults declare Int(10, min 1, max 100) for a key, the
\* user's Config holds Int(999) for it, and get_or_default returned Int(999);
\* the user's Config also holds a Float above its own max.
C12_Witness ==
    /\ config_call.op = "get_or_default"
    /\ config_call.store = "user"
    /\ config_call.key \in DOMAIN configs["defaults"]
    /\ configs["defaults"][config_call.key] = EntryInt(10, RSome(1), RSome(100))
    /\ config_call.result = Some(EntryInt(999, RNone, RNone))
    /\ \E k \in DOMAIN configs["user"] :
           LET v == configs["user"][k] IN
           v.tag = "Float" /\ OutOfBounds(v.value, v.min, v.max)

\* C16: a serialized Config emits its keys in ascending lexicographic order,
\* each key of the Config exactly once with its own value, however the keys
\* were inserted and removed and however the map iterates.
C16_SerializedInKeyOrder ==
    config_call.op = "serialize" =>
        LET m == configs[config_call.store]
            out == config_call.result
        IN  /\ Len(out) = Cardinality(DOMAIN m)
            /\ \A i \in 1..Len(out) : out[i].key \in DOMAIN m /\ out[i].value = m[out[i].key]
            /\ \A k \in DOMAIN m : \E i \in 1..Len(out) : out[i].key = k
            /\ \A i \in 1..(Len(out) - 1) : StrLess(out[i].key, out[i + 1].key)

\* C16's case: a Config of two keys, one a prefix of the other, was
\* serialized.
C16_Witness ==
    /\ config_call.op = "serialize"
    /\ Len(config_call.result) = 2
    /\ config_call.result[1].key = <<"a">>
    /\ config_call.result[2].key = <<"a", "b">>

\* C13: destroying a loaded plugin releases the Capability handle first, then
\* the verified module reference, then the raw library handle: the library
\* handle is never released while the Capability handle is live.
C13_TeardownHandleModuleLibrary ==
    \A path \in Paths :
        plugin[path].some =>
            LET r == plugin[path].value.released IN
            /\ Len(r) >= 1 => r[1] = "handle"
            /\ Len(r) >= 2 => r[2] = "module"
            /\ Len(r) >= 3 => r[3] = "library"
            /\ Len(r) <= 3

\* C13's case: one plugin is destroyed, all three resources released, while
\* the destruction of another has released its handle only.
C13_Witness ==
    \E path, other \in Paths :
        /\ plugin[path].some /\ Len(plugin[path].value.released) = 3
        /\ plugin[other].some /\ Len(plugin[other].value.released) = 1

\* The file at the path is a library whose root module passes the version
\* and the layout check.
Verified(path) ==
    /\ fs[path].exists /\ fs[path].library /\ fs[path].symbol
    /\ fs[path].version /\ fs[path].layout

\* C14: the factory get_searchable of a library is called only after the
\* version and layout check of its root module has passed: for a library that
\* cannot be opened or fails the check it is never called.
C14_CheckedBeforeFactory ==
    \A path \in Paths :
        /\ factory_called[path] =>
               (Verified(path) /\ load_result[path].some /\ load_result[path].value.ok)
        /\ plugin[path].some => Verified(path)

\* C14's case: the factory of one library was called while the load of a
\* library of another layout was refused.
C14_Witness ==
    \E path, other \in Paths :
        /\ factory_called[path]
        /\ fs[other] = OtherLayout
        /\ load_result[other].some
        /\ ~load_result[other].value.ok
        /\ ~factory_called[other]

\* C15: a load succeeds with the verified module or returns an error and no
\* module; the error for a file that is missing or cannot be opened differs
\* from the error for a library that opens but lacks the root module symbol
\* or has another version or layout.
C15_LoadAllOrNothing ==
    \A path \in Paths :
        load_result[path].some =>
            LET r == load_result[path].value IN
            /\ r.ok <=> Verified(path)
            /\ r.ok => (DOMAIN r = {"ok", "value"} /\ r.value = SearchLib_Ref(path))
            /\ ~r.ok => (DOMAIN r = {"ok", "error"} /\ ~plugin[path].some)
            /\ ~(fs[path].exists /\ fs[path].library) => r.error.tag = "OpenError"
            /\ (fs[path].exists /\ fs[path].library /\ ~Verified(path)) =>
                   r.error.tag \in {"GetSymbolError", "IncompatibleVersionNumber",
                                    "AbiInstability"}

\* C15's case: the load of a missing file and the load of a library without
\* the root module symbol both failed, with different errors.
C15_Witness ==
    \E path, other \in Paths :
        /\ fs[path] = Missing
        /\ fs[other] = NoRootModule
        /\ load_result[path].some /\ load_result[other].some
        /\ ~load_result[path].value.ok /\ ~load_result[other].value.ok
        /\ load_result[path].value.error.tag # load_result[other].value.error.tag

\* C17: for every u128 value v, U128Wrapper::new(v).get() = v: the split
\* into a high and a low half loses no bit; and two wrappers compare as the
\* values they hold.
C17_U128RoundTripAndOrder ==
    /\ (probe.op = "get" /\ probe.done) =>
           /\ probe.got = probe.v
           /\ probe.wrapped.first \in 0..(Half - 1)
           /\ probe.wrapped.second \in 0..(Half - 1)
    /\ (probe.op = "cmp" /\ probe.done) =>
           /\ probe.ordering.some
           /\ probe.ordering.value = "Less" <=> probe.v < probe.w
           /\ probe.ordering.value = "Equal" <=> probe.v = probe.w
           /\ probe.ordering.value = "Greater" <=> probe.v > probe.w

\* C17's case: the largest u128 went through the wrapper, both halves full.
C17_Witness ==
    /\ probe.op = "get"
    /\ probe.done
    /\ probe.v = U128Max
    /\ probe.wrapped.first = Half - 1
    /\ probe.wrapped.second = Half - 1
    /\ probe.got = U128Max

\* The messages taken out of the channel so far, in order, followed by the
\* messages still in it.
Drained == received \o (IF consumer.pc = "try_recv" THEN consumer.messages ELSE <<>>) \o queue

\* The messages of s that carry the source label.
From(s, label) == SelectSeq(s, LAMBDA m : m.source = label)

\* C18: under any interleaving of log calls of several threads with
\* Logger::get, the messages returned so far, those of a get under way and
\* those still queued hold each sent message exactly once, and the messages
\* of one thread in the order the thread sent them.
C18_NoLossNoDuplicateInOrder ==
    /\ Drained = sent
    /\ \A i, j \in 1..Len(Drained) : i # j => Drained[i] # Drained[j]
    /\ \A t \in Producers : From(Drained, ThreadLabel[t]) = emitted[t]

\* C18's case: a get under way has taken the message of one thread while the
\* other thread, past the filter, is about to send.
C18_Witness ==
    /\ consumer.pc = "try_recv"
    /\ Len(consumer.messages) = 1
    /\ \E t \in Producers :
           /\ threads[t].pc = "send"
           /\ ThreadLabel[t] # consumer.messages[1].source

\* The host is inside Logger::get.
Draining == consumer.pc = "try_recv"

\* Every producer thread has ended.
ProducersDone == \A t \in Producers : threads[t].pc = "exited"

\* C19, as claimed: Logger::get always returns, also while other threads keep
\* calling log.
C19_DrainAlwaysReturns == Draining ~> ~Draining

\* C19, what Logger::get does give: it never waits for a message, and once the
\* producers stop sending it returns, at the first try_recv that finds the
\* channel empty.
C19_DrainReturnsOnceProducersStop == (Draining /\ ProducersDone) ~> ~Draining

\* C19's case: the producers have ended and get, under way with a message
\* taken, is at an empty channel.
C19_Witness ==
    /\ Draining
    /\ ProducersDone
    /\ queue = <<>>
    /\ Len(consumer.messages) = 1

\* The calls of log that have returned.
Returning == {t \in Producers : threads[t].outcome \in {"filtered", "sent", "send_failed"}}

\* C20: a log call that runs while set_log_level changes the filter reads the
\* filter once, whole: the filter it read is one that was in force during the
\* call, the old or the new one, its outcome is the outcome under that filter,
\* and no thread waits for the lock while its holder waits too.
C20_FilterReadWholeOnce ==
    /\ \A t \in Producers :
           threads[t].pc = "send" \/ t \in Returning =>
               /\ threads[t].filter \in threads[t].seen
               /\ threads[t].filter \in ThreadFilters
               /\ t \in Returning =>
                      (threads[t].outcome = "filtered"
                           <=> ~is_enabled(threads[t].filter, threads[t].level))
    /\ guard.some => (guard.value = Host /\ consumer.pc \in {"write_tag", "write_payload"})

\* C20's case: a log call that began under a filter that disables its level
\* was sent: set_log_level changed the filter before the call read it.
C20_Witness ==
    \E t \in Producers :
        /\ threads[t].outcome = "sent"
        /\ Cardinality(threads[t].seen) = 2
        /\ \E f \in threads[t].seen : ~is_enabled(f, threads[t].level)

\* C21: with the mirror flag set and the severity enabled, log writes exactly
\* one line to standard output, the serialized message, whether the send
\* succeeded or failed because the receiver is gone; otherwise log writes
\* nothing there. Every ScopedLogger has the stdout flag of its Logger.
C21_MirroredWhetherOrNotSent ==
    /\ \A s \in scoped : s.stdout = logger.stdout
    /\ last.op = "log" =>
           IF last.e.stdout /\ is_enabled(cells[last.e.log_level], last.level)
           THEN /\ last.outcome \in {"sent", "send_failed"}
                /\ Len(stdout_written) = 1
                /\ \E now \in Now :
                       stdout_written[1] =
                           to_string(LogMessage(last.text, last.level, last.e.source,
                                                U128New(now)))
           ELSE stdout_written = <<>>

\* C21's case: a ScopedLogger of a mirroring Logger logged after the Logger
\* was dropped: the send failed and the line was written.
C21_Witness ==
    /\ last.op = "log"
    /\ last.e.type = "ScopedLogger"
    /\ ~logger_alive
    /\ last.outcome = "send_failed"
    /\ Len(stdout_written) = 1

\* C22: get_or_default changes neither Config: after the call the primary and
\* the defaults hold the keys and values they held before it, also when the
\* value returned came from the defaults.
C22_GetOrDefaultChangesNeitherStore ==
    config_call.op = "get_or_default" =>
        \A store \in Stores : configs[store] = config_call.before[store]

\* C22's case: the key is in the defaults only, and get_or_default on the
\* user's Config returned the defaults' value.
C22_Witness ==
    /\ config_call.op = "get_or_default"
    /\ config_call.store = "user"
    /\ config_call.key \notin DOMAIN config_call.before["user"]
    /\ config_call.key \in DOMAIN config_call.before["defaults"]
    /\ config_call.result = Some(config_call.before["defaults"][config_call.key])

\* C23: import_deserialize of a text that parses as a LogMessage does not ask
\* the filter: whatever the filter says of the event's level, the event is
\* sent as it is (it joins the queue while the receiver lives) and is printed
\* when the emitter mirrors, while log with the same message and level is
\* dropped under a filter that disables the level.
C23_ImportBypassesFilter ==
    (last.op = "import_deserialize" /\ last.text # <<>>
         /\ from_str_LogMessage(last.text).ok) =>
        LET m == from_str_LogMessage(last.text).value IN
        /\ last.outcome = IF logger_alive THEN "imported" ELSE "import_send_failed"
        /\ queue = IF logger_alive THEN Append(before, m) ELSE before
        /\ stdout_written = IF last.e.stdout THEN <<to_string(m)>> ELSE <<>>
        /\ ~is_enabled(log_level(last.e), m.level) =>
               \A now \in Now :
                   LET logged == Log_log(last.e, m.message, m.level, now) IN
                   /\ logged.outcome = "filtered"
                   /\ logged.queue = queue
                   /\ logged.stdout = <<>>

\* C23's case: a mirroring ScopedLogger imported an event whose level the
\* filter disables: the event was enqueued and printed.
C23_Witness ==
    /\ last.op = "import_deserialize"
    /\ last.outcome = "imported"
    /\ last.e.type = "ScopedLogger"
    /\ from_str_LogMessage(last.text).ok
    /\ ~is_enabled(log_level(last.e), from_str_LogMessage(last.text).value.level)
    /\ Len(queue) = Len(before) + 1
    /\ Len(stdout_written) = 1

====
